---- MODULE Spec2Model ----
(***************************************************************************)
(* The style-transfer bot: its two programs, main.py (style references     *)
(* kept as files under styles/, session mode in a process dictionary) and  *)
(* api/index.py (both kept in two remote tables), as one state machine.    *)
(* A behaviour runs one of the two programs (variant) from a fresh         *)
(* deployment; every action is one handler invocation, translated from     *)
(* the handler's code.  Strings are sequences of one-character strings,    *)
(* so that strip, lower, "in", str(), glob and sorted are computed.        *)
(***************************************************************************)
EXTENDS Integers, Sequences, FiniteSets, Bags, TLC

(***************************************************************************)
(* Bounds of the model.                                                    *)
(***************************************************************************)
\* references the conversation of Spec may hold
MaxRefs == 3
\* references the two conversations of SpecTwo may hold together
TwoRefs == 1
\* the wall clock starts at TimeBase (today's epoch milliseconds have 13
\* digits and keep 13 until the year 2286; the model's have 2)
TimeBase == 10
\* saves a behaviour of Spec may time-stamp before the clock must step back
MaxTime == 3
\* references a conversation may hold beyond the cap under SpecCap
MaxOver == 1
\* references the conversation of SpecFail may hold
FailRefs == 2
\* invocations of the webhook that may be in flight together under SpecRace
MaxFlight == 2

(***************************************************************************)
(* Program constants.                                                      *)
(***************************************************************************)
\* main.py:152-153 `> 10`, `[:10]`; api/index.py:139 `[:10]`
MAX_REFERENCES == 10

\* update.message.chat_id of the conversations; "1" is a prefix of "11"
Chats == {1, 11}

\* the chat of the specifications of one chat
CapChat == 11

\* the Telegram files users send: their file ids
Photos == {1, 2}

(***************************************************************************)
(* Strings.                                                                *)
(***************************************************************************)
\* the characters of the model in code-point order, as sorted() compares
AsciiOrder ==
    <<" ", "!", ".", "/", "0", "1", "2", "3", "4", "5", "6", "7", "8", "9",
      "A", "B", "C", "D", "E", "F", "G", "H", "I", "J", "K", "L", "M", "N",
      "O", "P", "Q", "R", "S", "T", "U", "V", "W", "X", "Y", "Z", "_",
      "a", "b", "c", "d", "e", "f", "g", "h", "i", "j", "k", "l", "m", "n",
      "o", "p", "q", "r", "s", "t", "u", "v", "w", "x", "y", "z">>

\* ord(ch), up to the order it gives
AsciiRank ==
    [ch \in {AsciiOrder[i] : i \in 1..Len(AsciiOrder)} |->
        CHOOSE i \in 1..Len(AsciiOrder) : AsciiOrder[i] = ch]

Ord(ch) == AsciiRank[ch]

\* str.lower() on the ASCII letters
UpperToLower ==
    [A |-> "a", B |-> "b", C |-> "c", D |-> "d", E |-> "e", F |-> "f",
     G |-> "g", H |-> "h", I |-> "i", J |-> "j", K |-> "k", L |-> "l",
     M |-> "m", N |-> "n", O |-> "o", P |-> "p", Q |-> "q", R |-> "r",
     S |-> "s", T |-> "t", U |-> "u", V |-> "v", W |-> "w", X |-> "x",
     Y |-> "y", Z |-> "z"]

LowerChar(ch) == IF ch \in DOMAIN UpperToLower THEN UpperToLower[ch] ELSE ch

Lower(s) == [i \in 1..Len(s) |-> LowerChar(s[i])]

IsSpace(ch) == ch \in {" ", "\t", "\n"}

\* str.strip(): without the leading and the trailing whitespace
Strip(s) ==
    LET keep == {i \in 1..Len(s) : ~IsSpace(s[i])}
    IN  IF keep = {} THEN <<>>
        ELSE LET lo == CHOOSE i \in keep : \A j \in keep : i <= j
                 hi == CHOOSE i \in keep : \A j \in keep : j <= i
             IN  SubSeq(s, lo, hi)

\* `w in s` of two str
Contains(s, w) ==
    \E i \in 0..(Len(s) - Len(w)) : SubSeq(s, i + 1, i + Len(w)) = w

StartsWith(s, p) == Len(s) >= Len(p) /\ SubSeq(s, 1, Len(p)) = p

EndsWith(s, p) == Len(s) >= Len(p) /\ SubSeq(s, Len(s) - Len(p) + 1, Len(s)) = p

DigitChars == <<"0", "1", "2", "3", "4", "5", "6", "7", "8", "9">>

RECURSIVE Digits(_)
\* str(n), f"{n}" of an int n >= 0
Digits(n) ==
    IF n < 10 THEN <<DigitChars[n + 1]>>
    ELSE Digits(n \div 10) \o <<DigitChars[(n % 10) + 1]>>

\* s < t of two str: by code point at the first difference, a proper
\* prefix first
LexLess(s, t) ==
    LET n == IF Len(s) < Len(t) THEN Len(s) ELSE Len(t)
        differ == {i \in 1..n : s[i] # t[i]}
    IN  IF differ = {} THEN Len(s) < Len(t)
        ELSE LET i == CHOOSE d \in differ : \A e \in differ : d <= e
             IN  Ord(s[i]) < Ord(t[i])

RECURSIVE SortedSeq(_)
\* sorted(S) of a set of str
SortedSeq(S) ==
    IF S = {} THEN <<>>
    ELSE LET m == CHOOSE x \in S : \A y \in S \ {x} : LexLess(x, y)
         IN  <<m>> \o SortedSeq(S \ {m})

\* a slip: s[-n:], the newest n
TakeLast(s, n) == SubSeq(s, IF Len(s) < n THEN 1 ELSE Len(s) - n + 1, Len(s))

\* s[:n]
Take(s, n) == SubSeq(s, 1, IF Len(s) < n THEN Len(s) ELSE n)

(***************************************************************************)
(* Inputs: captions, images, failure messages.                             *)
(***************************************************************************)
\* update.message.caption: absent (None) or a text
NoCaption == [present |-> FALSE, text |-> <<>>]

Caption(t) == [present |-> TRUE, text |-> t]

CaptionAdd == Caption(<<" ", "A", "D", "D", " ">>)

CaptionMood == Caption(<<"M", "o", "o", "d">>)

CaptionPreference == Caption(<<"p", "r", "e", "f", "e", "r", "e", "n", "c", "e">>)

CaptionSalva == Caption(<<"S", "a", "l", "v", "a", "!">>)

CaptionStyle == Caption(<<"m", "y", "S", "T", "Y", "L", "E">>)

CaptionSunset ==
    Caption(<<"n", "i", "c", "e", " ", "s", "u", "n", "s", "e", "t">>)

CaptionSplit == Caption(<<"s", "t", "y", " ", "l", "e">>)

Captions ==
    {NoCaption, CaptionAdd, CaptionMood, CaptionPreference, CaptionSalva,
     CaptionStyle, CaptionSunset, CaptionSplit}

\* str(e) of the exceptions the collaborators raise
Msg429 == <<"4", "2", "9", " ", "q", "u", "o", "t", "a">>

MsgExhausted ==
    <<"R", "E", "S", "O", "U", "R", "C", "E", "_", "E", "X", "H", "A", "U",
      "S", "T", "E", "D", ".">>

MsgExhaustedLower ==
    <<"r", "e", "s", "o", "u", "r", "c", "e", "_", "e", "x", "h", "a", "u",
      "s", "t", "e", "d">>

Msg500 == <<"5", "0", "0", " ", "I", "N", "T", "E", "R", "N", "A", "L">>

Msg42 == <<"4", "2", " ", "9">>

ErrorMessages == {Msg429, MsgExhausted, MsgExhaustedLower, Msg500, Msg42}

\* how a call to a collaborator ends: it returns, or raises e with str(e) = msg
Returns == [raised |-> FALSE, msg |-> <<>>]

Raises(m) == [raised |-> TRUE, msg |-> m]

\* the collaborators' answers during one update: fetching or opening the
\* images inside the try block, generate_content (its response.parts: 0 is a
\* part whose as_image() is None, k > 0 a part holding image k), reply_photo.
\* Three more answers are the usual ones unless said otherwise: the calls the
\* handler makes outside its try block return, response.parts is a list and
\* not None, and the webhook's writes to its client return.
Env(fetch, gen, parts, send) ==
    [fetch |-> fetch, gen |-> gen, parts |-> parts, send |-> send,
     outside |-> Returns, iterable |-> TRUE, write |-> Returns]

EnvOk == Env(Returns, Returns, <<1>>, Returns)

Envs ==
    {EnvOk,
     Env(Returns, Returns, <<0, 2, 1>>, Returns),
     Env(Returns, Returns, <<>>, Returns),
     Env(Returns, Returns, <<0>>, Returns),
     Env(Raises(Msg429), Returns, <<1>>, Returns),
     Env(Raises(Msg500), Returns, <<1>>, Returns),
     Env(Returns, Returns, <<1>>, Raises(Msg429)),
     Env(Returns, Returns, <<1>>, Raises(Msg500))}
    \cup {Env(Returns, Raises(m), <<>>, Returns) : m \in ErrorMessages}

\* str(e) of iterating None: response.parts of a response without candidates
MsgNotIterable ==
    <<"'", "N", "o", "n", "e", "T", "y", "p", "e", "'", " ", "n", "o", "t",
      " ", "i", "t", "e", "r", "a", "b", "l", "e">>

\* str(e) of writing to a client that closed the connection
MsgBrokenPipe == <<"B", "r", "o", "k", "e", "n", " ", "p", "i", "p", "e">>

\* generate_content returns a response whose parts property is None
EnvNoParts == [Env(Returns, Returns, <<>>, Returns) EXCEPT !.iterable = FALSE]

\* a call outside the try block raises: get_file or download_as_bytearray of
\* the incoming photo (main.py), a query of the remote store (index.py)
EnvOutside == [EnvOk EXCEPT !.outside = Raises(Msg500)]

\* the client of the webhook is gone when the response is written
EnvBrokenPipe == [EnvOk EXCEPT !.write = Raises(MsgBrokenPipe)]

\* every answer of the collaborators, the rarer ones included
FailEnvs == Envs \cup {EnvNoParts, EnvOutside, EnvBrokenPipe}

\* Image.open(io.BytesIO(bytes)) of the Telegram file p
PhotoImage(p) == <<"photo", p>>

\* what Image.open reads back from a file written by image.save(f, 'JPEG')
Jpeg(img) == <<"jpeg", img[2]>>

\* part.as_image() of the response part holding image k
GeneratedImage(k) == <<"generated", k>>

\* img.save(buffer, format='PNG'); buffer.getvalue()
Png(img) == <<"png", img[2]>>

\* the instruction, first entry of contents
Prompt == <<"prompt", 0>>

\* one message sent to the user: reply_text or reply_photo
Reply(kind, n, data) == [kind |-> kind, n |-> n, data |-> data]

(***************************************************************************)
(* State.                                                                  *)
(***************************************************************************)
VARIABLES
    variant,                \* "fs": main.py runs; "db": api/index.py runs
    supabase,               \* index.py:35-37: whether the client was created
    now,                    \* the wall clock: time.time() * 1000, created_at
    chat_is_setting_style,  \* main.py:38, defaultdict(bool)
    styles_dir,             \* main.py:34-35: the files of styles/, by path
    user_states,            \* table user_states: str(chat_id) -> flag
    style_references,       \* table style_references: the bag of its rows
    last,                   \* the update the last handler processed
    replies,                \* the messages that handler sent, in order
    calls,                  \* the contents it passed to generate_content
    modeCmd,                \* history: a chat's latest set_style/done_style
    touched,                \* history: the chats an update was processed for
    responses,              \* the status codes do_POST sent for that update
    saves,                  \* history: a chat's saves since its last clear
    pending                 \* index.py: handle_image calls in flight, by arrival

vars ==
    <<variant, supabase, now, chat_is_setting_style, styles_dir, user_states,
      style_references, last, replies, calls, modeCmd, touched, responses,
      saves, pending>>

mainState == <<chat_is_setting_style, styles_dir>>

indexState == <<user_states, style_references>>

\* the update a handler was called with and the branch of handle_image it took
Update(op, c, p, caption, env, branch, before) ==
    [op |-> op, chat |-> c, photo |-> p, caption |-> caption, env |-> env,
     branch |-> branch, before |-> before]

\* send_response(200), send_response(500)
HTTP_OK == 200

HTTP_ERROR == 500

\* handler.do_POST: the status codes it sends.  An exception raised by a
\* handler does not reach it: Application.process_update hands it to the
\* error handlers, and none is registered.  Reading the request raises when
\* it is not a well-formed update; the writes at the end are inside the try.
do_POST(wellformed, write) ==
    IF ~wellformed THEN <<HTTP_ERROR>>
    ELSE IF write.raised THEN <<HTTP_OK, HTTP_ERROR>>
    ELSE <<HTTP_OK>>

\* what surrounds handler op run for chat c: the webhook's response in
\* index.py, and the history variables
Track(op, c) ==
    /\ touched' = touched \cup {c}
    /\ modeCmd' = IF op \in {"set_style", "done_style"}
                  THEN [modeCmd EXCEPT ![c] = op] ELSE modeCmd
    /\ saves' = IF op = "save" THEN [saves EXCEPT ![c] = @ + 1]
                ELSE IF op = "clear_style" THEN [saves EXCEPT ![c] = 0]
                ELSE saves
    /\ responses' = IF variant = "db" THEN do_POST(TRUE, last'.env.write)
                    ELSE <<>>
    /\ UNCHANGED pending

(***************************************************************************)
(* The classifier and the error classification, written alike in both      *)
(* programs.                                                               *)
(***************************************************************************)
Keywords ==
    << <<"a", "d", "d">>, <<"r", "e", "f">>, <<"s", "t", "y", "l", "e">>,
       <<"s", "a", "l", "v", "a">>, <<"m", "o", "o", "d">> >>

\* (update.message.caption or "").strip().lower()
caption_text(caption) ==
    Lower(Strip(IF caption.present THEN caption.text ELSE <<>>))

\* a slip: a caption asks only when it is a keyword, not when it holds one
asking_by_whole_caption(text) ==
    \E k \in 1..Len(Keywords) : text = Keywords[k]

\* any(word in caption_text for word in [...])
is_caption_asking_to_save(text) ==
    \E k \in 1..Len(Keywords) : Contains(text, Keywords[k])

\* the first part whose as_image() is an image, saved as PNG; <<>> for none
generated_image_bytes(parts) ==
    LET images == {i \in 1..Len(parts) : parts[i] > 0}
    IN  IF images = {} THEN <<>>
        ELSE Png(GeneratedImage(
                 parts[CHOOSE i \in images : \A j \in images : i <= j]))

(***************************************************************************)
(* main.py: references as files, session mode in memory.                   *)
(***************************************************************************)
STYLES_DIR == <<"s", "t", "y", "l", "e", "s">>

\* os.path.join(dir, name)
PathJoin(dir, name) == dir \o <<"/">> \o name

\* glob.glob(os.path.join(STYLES_DIR, f"{prefix}*{suffix}")) over directory dir
Glob(dir, prefix, suffix) ==
    {f \in DOMAIN dir :
        /\ Len(f) >= Len(PathJoin(STYLES_DIR, prefix)) + Len(suffix)
        /\ StartsWith(f, PathJoin(STYLES_DIR, prefix))
        /\ EndsWith(f, suffix)}

\* a slip: the patterns f"{chat_id}*.jpg", f"{chat_id}*.png"
get_style_images_unseparated(dir, chat_id) ==
    SortedSeq(Glob(dir, Digits(chat_id), <<".", "j", "p", "g">>)
              \cup Glob(dir, Digits(chat_id), <<".", "p", "n", "g">>))

get_style_images(dir, chat_id) ==
    SortedSeq(Glob(dir, Digits(chat_id) \o <<"_">>, <<".", "j", "p", "g">>)
              \cup Glob(dir, Digits(chat_id) \o <<"_">>, <<".", "p", "n", "g">>))

\* os.path.join(STYLES_DIR, f"{chat_id}_{ts}.jpg")
StyleFileName(chat_id, ts) ==
    PathJoin(STYLES_DIR,
             Digits(chat_id) \o <<"_">> \o Digits(ts) \o <<".", "j", "p", "g">>)

\* image.save(filename, format='JPEG'): creates the file or overwrites it
SaveJpeg(dir, filename, image) ==
    [f \in DOMAIN dir \cup {filename} |->
        IF f = filename THEN Jpeg(image) ELSE dir[f]]

\* os.remove of every file of gone
RemoveFiles(dir, gone) == [f \in DOMAIN dir \ gone |-> dir[f]]

SeqRange(s) == {s[i] : i \in 1..Len(s)}

\* the literal "RESOURCE_EXHAUSTED" of both programs
RESOURCE_EXHAUSTED ==
    <<"R", "E", "S", "O", "U", "R", "C", "E", "_", "E", "X", "H", "A", "U",
      "S", "T", "E", "D">>

\* a slip: `and` for `or`
main_error_reply_both(error_str) ==
    IF /\ Contains(error_str, <<"4", "2", "9">>)
       /\ Contains(error_str, RESOURCE_EXHAUSTED)
    THEN Reply("quota", 0, <<>>)
    ELSE Reply("error", 0, error_str)

main_error_reply(error_str) ==
    IF \/ Contains(error_str, <<"4", "2", "9">>)
       \/ Contains(error_str, RESOURCE_EXHAUSTED)
    THEN Reply("quota", 0, <<>>)
    ELSE Reply("error", 0, error_str)

\* a slip: a failed call is made once more before the error is reported
main_transform_retrying(image, style_files, env) ==
    LET contents == <<Prompt, image>>
                    \o [i \in 1..Len(style_files) |-> styles_dir[style_files[i]]]
    IN  IF env.gen.raised
        THEN [replies |-> <<main_error_reply(env.gen.msg)>>,
              calls |-> <<contents, contents>>]
        ELSE [replies |-> <<Reply("generation_empty", 0, <<>>)>>,
              calls |-> <<contents>>]

\* the try block of handle_image: what it replies and what it passes to
\* generate_content
main_transform(image, style_files, env) ==
    LET opened == [i \in 1..Len(style_files) |-> styles_dir[style_files[i]]]
        over == Len(opened) > MAX_REFERENCES
        loaded_styles == IF over THEN Take(opened, MAX_REFERENCES) ELSE opened
        signal == IF over THEN <<Reply("truncated", 0, <<>>)>> ELSE <<>>
        contents == <<Prompt, image>> \o loaded_styles
        bytes == generated_image_bytes(env.parts)
    IN  IF env.fetch.raised
        THEN [replies |-> <<main_error_reply(env.fetch.msg)>>, calls |-> <<>>]
        ELSE IF env.gen.raised
        THEN [replies |-> signal \o <<main_error_reply(env.gen.msg)>>,
              calls |-> <<contents>>]
        ELSE IF ~env.iterable
        THEN [replies |-> signal \o <<main_error_reply(MsgNotIterable)>>,
              calls |-> <<contents>>]
        ELSE IF bytes = <<>>
        THEN [replies |-> signal \o <<Reply("generation_empty", 0, <<>>)>>,
              calls |-> <<contents>>]
        ELSE IF env.send.raised
        THEN [replies |-> signal \o <<main_error_reply(env.send.msg)>>,
              calls |-> <<contents>>]
        ELSE [replies |-> signal \o <<Reply("photo", 0, bytes)>>,
              calls |-> <<contents>>]

\* a slip: no `if not style_files` before the transform
main_subject_unchecked(image, style_files, env) ==
    LET done == main_transform(image, style_files, env)
    IN  [replies |-> <<Reply("received", 0, <<>>)>> \o done.replies,
         calls |-> done.calls]

\* the else branch of handle_image: the photo as the subject
main_subject(image, style_files, env) ==
    IF style_files = <<>>
    THEN [replies |-> <<Reply("no_references", 0, <<>>)>>, calls |-> <<>>]
    ELSE LET done == main_transform(image, style_files, env)
         IN  [replies |-> <<Reply("received", 0, <<>>)>> \o done.replies,
              calls |-> done.calls]

main_start(c) ==
    /\ variant = "fs"
    /\ replies' = <<Reply("welcome", 0, <<>>)>>
    /\ calls' = <<>>
    /\ last' = Update("start", c, 0, NoCaption, EnvOk, "none",
                      Len(get_style_images(styles_dir, c)))
    /\ Track("start", c)
    /\ UNCHANGED <<variant, supabase, now, mainState, indexState>>

main_set_style(c) ==
    /\ variant = "fs"
    /\ chat_is_setting_style' = [chat_is_setting_style EXCEPT ![c] = TRUE]
    /\ replies' = <<Reply("set_style_on", 0, <<>>)>>
    /\ calls' = <<>>
    /\ last' = Update("set_style", c, 0, NoCaption, EnvOk, "none",
                      Len(get_style_images(styles_dir, c)))
    /\ Track("set_style", c)
    /\ UNCHANGED <<variant, supabase, now, styles_dir, indexState>>

main_done_style(c) ==
    /\ variant = "fs"
    /\ chat_is_setting_style' = [chat_is_setting_style EXCEPT ![c] = FALSE]
    /\ replies' =
           <<Reply("set_style_off", Len(get_style_images(styles_dir, c)), <<>>)>>
    /\ calls' = <<>>
    /\ last' = Update("done_style", c, 0, NoCaption, EnvOk, "none",
                      Len(get_style_images(styles_dir, c)))
    /\ Track("done_style", c)
    /\ UNCHANGED <<variant, supabase, now, styles_dir, indexState>>

\* os.remove raises for the files of failing; the handler logs and goes on
main_clear_style(c, failing) ==
    /\ variant = "fs"
    /\ LET files == get_style_images(styles_dir, c)
       IN  /\ failing \subseteq SeqRange(files)
           /\ styles_dir' = RemoveFiles(styles_dir, SeqRange(files) \ failing)
           /\ last' = Update("clear_style", c, 0, NoCaption, EnvOk, "none",
                             Len(files))
    /\ replies' = <<Reply("cleared", 0, <<>>)>>
    /\ calls' = <<>>
    /\ Track("clear_style", c)
    /\ UNCHANGED <<variant, supabase, now, chat_is_setting_style, indexState>>

main_status(c) ==
    /\ variant = "fs"
    /\ LET count == Len(get_style_images(styles_dir, c))
       IN  /\ replies' = <<IF count = 0 THEN Reply("status_none", 0, <<>>)
                                         ELSE Reply("status", count, <<>>)>>
           /\ last' = Update("status", c, 0, NoCaption, EnvOk, "none", count)
    /\ calls' = <<>>
    /\ Track("status", c)
    /\ UNCHANGED <<variant, supabase, now, mainState, indexState>>

main_handle_image(c, p, caption, env) ==
    /\ variant = "fs"
    /\ LET image == PhotoImage(p)
           text == caption_text(caption)
           asking == is_caption_asking_to_save(text)
           style_files == get_style_images(styles_dir, c)
       IN  IF env.outside.raised
           THEN /\ replies' = <<>>
                /\ calls' = <<>>
                /\ last' = Update("photo", c, p, caption, env, "raised",
                                  Len(style_files))
                /\ Track("raised", c)
                /\ UNCHANGED <<styles_dir, now>>
           ELSE IF chat_is_setting_style[c] \/ asking
           THEN LET filename == StyleFileName(c, now)
                    written == SaveJpeg(styles_dir, filename, image)
                    count == Len(get_style_images(written, c))
                IN  /\ styles_dir' = written
                    /\ now' = now + 1
                    /\ replies' =
                           <<IF asking /\ ~chat_is_setting_style[c]
                             THEN Reply("saved_by_caption", count, <<>>)
                             ELSE Reply("saved", count, <<>>)>>
                    /\ calls' = <<>>
                    /\ last' = Update("photo", c, p, caption, env, "save",
                                      Len(style_files))
                    /\ Track("save", c)
           ELSE /\ replies' = main_subject(image, style_files, env).replies
                /\ calls' = main_subject(image, style_files, env).calls
                /\ last' = Update("photo", c, p, caption, env, "subject",
                                  Len(style_files))
                /\ Track("subject", c)
                /\ UNCHANGED <<styles_dir, now>>
    /\ UNCHANGED <<variant, supabase, chat_is_setting_style, indexState>>

(***************************************************************************)
(* api/index.py: references and session mode as rows of two tables.        *)
(***************************************************************************)
\* select('is_setting_style').eq('chat_id', str(chat_id)); data[0] if any
get_user_state(chat_id) ==
    IF ~supabase THEN FALSE
    ELSE IF Digits(chat_id) \in DOMAIN user_states
         THEN user_states[Digits(chat_id)]
         ELSE FALSE

\* the table after upsert({'chat_id': str(chat_id), 'is_setting_style': state})
set_user_state(chat_id, state) ==
    IF ~supabase THEN user_states
    ELSE [k \in DOMAIN user_states \cup {Digits(chat_id)} |->
             IF k = Digits(chat_id) THEN state ELSE user_states[k]]

\* the rows of a table, one <<row, k>> for the k-th copy of an equal row
Rows(table) ==
    UNION {{<<row, k>> : k \in 1..CopiesIn(row, table)} :
           row \in BagToSet(table)}

RECURSIVE OrderedByCreatedAt(_)
\* order('created_at'): every order of the rows I that ascends in created_at
\* (rows of equal created_at may come in either order)
OrderedByCreatedAt(I) ==
    IF I = {} THEN {<<>>}
    ELSE UNION {{<<m[1].file_id>> \o rest :
                    rest \in OrderedByCreatedAt(I \ {m})} :
                m \in {i \in I : \A j \in I :
                           i[1].created_at <= j[1].created_at}}

\* the lists select('file_id').eq('chat_id', str(chat_id)).order('created_at')
\* can return from table
get_style_files(table, chat_id) ==
    IF ~supabase THEN {<<>>}
    ELSE OrderedByCreatedAt(
             {r \in Rows(table) : r[1].chat_id = Digits(chat_id)})

\* the table after insert({'chat_id': str(chat_id), 'file_id': file_id});
\* created_at is the column's default, the time of the insert
add_style_file(chat_id, file_id) ==
    IF ~supabase THEN style_references
    ELSE style_references
         (+) SetToBag({[chat_id |-> Digits(chat_id), file_id |-> file_id,
                        created_at |-> now]})

\* a slip: delete() without its eq filter
clear_style_files_of_all(chat_id) ==
    IF ~supabase THEN style_references ELSE EmptyBag

\* the table after delete().eq('chat_id', str(chat_id))
clear_style_files(chat_id) ==
    IF ~supabase THEN style_references
    ELSE [row \in {r \in BagToSet(style_references) :
                      r.chat_id # Digits(chat_id)} |-> style_references[row]]

index_error_reply(error_str) ==
    IF \/ Contains(error_str, <<"4", "2", "9">>)
       \/ Contains(error_str, RESOURCE_EXHAUSTED)
    THEN Reply("quota", 0, <<>>)
    ELSE Reply("error", 0, error_str)

\* the try block of handle_image: what it replies and what it passes to
\* generate_content
index_transform(file_id, ref_file_ids, env) ==
    LET subject_image == PhotoImage(file_id)
        limited == Take(ref_file_ids, MAX_REFERENCES)
        loaded_styles == [i \in 1..Len(limited) |-> PhotoImage(limited[i])]
        contents == <<Prompt, subject_image>> \o loaded_styles
        bytes == generated_image_bytes(env.parts)
    IN  IF env.fetch.raised
        THEN [replies |-> <<index_error_reply(env.fetch.msg)>>, calls |-> <<>>]
        ELSE IF env.gen.raised
        THEN [replies |-> <<index_error_reply(env.gen.msg)>>,
              calls |-> <<contents>>]
        ELSE IF ~env.iterable
        THEN [replies |-> <<index_error_reply(MsgNotIterable)>>,
              calls |-> <<contents>>]
        ELSE IF bytes = <<>>
        THEN [replies |-> <<Reply("generation_empty", 0, <<>>)>>,
              calls |-> <<contents>>]
        ELSE IF env.send.raised
        THEN [replies |-> <<index_error_reply(env.send.msg)>>,
              calls |-> <<contents>>]
        ELSE [replies |-> <<Reply("photo", 0, bytes)>>, calls |-> <<contents>>]

\* the else branch of handle_image: the photo as the subject
index_subject(file_id, ref_file_ids, env) ==
    IF ref_file_ids = <<>>
    THEN [replies |-> <<Reply("no_references", 0, <<>>)>>, calls |-> <<>>]
    ELSE LET done == index_transform(file_id, ref_file_ids, env)
         IN  [replies |-> <<Reply("received", 0, <<>>)>> \o done.replies,
              calls |-> done.calls]

index_start(c) ==
    /\ variant = "db"
    /\ replies' = <<Reply("welcome", 0, <<>>)>>
    /\ calls' = <<>>
    /\ \E listed \in get_style_files(style_references, c) :
           last' = Update("start", c, 0, NoCaption, EnvOk, "none", Len(listed))
    /\ Track("start", c)
    /\ UNCHANGED <<variant, supabase, now, mainState, indexState>>

index_set_style(c) ==
    /\ variant = "db"
    /\ user_states' = set_user_state(c, TRUE)
    /\ replies' = <<Reply("set_style_on", 0, <<>>)>>
    /\ calls' = <<>>
    /\ \E listed \in get_style_files(style_references, c) :
           last' = Update("set_style", c, 0, NoCaption, EnvOk, "none",
                          Len(listed))
    /\ Track("set_style", c)
    /\ UNCHANGED <<variant, supabase, now, mainState, style_references>>

index_done_style(c) ==
    /\ variant = "db"
    /\ user_states' = set_user_state(c, FALSE)
    /\ \E listed \in get_style_files(style_references, c) :
           /\ replies' = <<Reply("set_style_off", Len(listed), <<>>)>>
           /\ last' = Update("done_style", c, 0, NoCaption, EnvOk, "none",
                             Len(listed))
    /\ calls' = <<>>
    /\ Track("done_style", c)
    /\ UNCHANGED <<variant, supabase, now, mainState, style_references>>

index_clear_style(c) ==
    /\ variant = "db"
    /\ style_references' = clear_style_files(c)
    /\ replies' = <<Reply("cleared", 0, <<>>)>>
    /\ calls' = <<>>
    /\ \E listed \in get_style_files(style_references, c) :
           last' = Update("clear_style", c, 0, NoCaption, EnvOk, "none",
                          Len(listed))
    /\ Track("clear_style", c)
    /\ UNCHANGED <<variant, supabase, now, mainState, user_states>>

index_status(c) ==
    /\ variant = "db"
    /\ \E listed \in get_style_files(style_references, c) :
           /\ replies' = <<Reply("status", Len(listed), <<>>)>>
           /\ last' = Update("status", c, 0, NoCaption, EnvOk, "none",
                             Len(listed))
    /\ calls' = <<>>
    /\ Track("status", c)
    /\ UNCHANGED <<variant, supabase, now, mainState, indexState>>

\* a slip: the subject is inserted into the table before it is transformed
index_handle_image_keeping(c, file_id, caption, env) ==
    /\ variant = "db"
    /\ style_references' = add_style_file(c, file_id)
    /\ now' = now + 1
    /\ \E ref_file_ids \in get_style_files(style_references, c) :
           /\ replies' = index_subject(file_id, ref_file_ids, env).replies
           /\ calls' = index_subject(file_id, ref_file_ids, env).calls
           /\ last' = Update("photo", c, file_id, caption, env, "subject",
                             Len(ref_file_ids))
    /\ Track("subject", c)
    /\ UNCHANGED <<variant, supabase, mainState, user_states>>

index_handle_image(c, file_id, caption, env) ==
    /\ variant = "db"
    /\ LET text == caption_text(caption)
           asking == is_caption_asking_to_save(text)
           is_setting_style == get_user_state(c)
       IN  IF supabase /\ env.outside.raised
           THEN /\ replies' = <<>>
                /\ calls' = <<>>
                /\ \E listed \in get_style_files(style_references, c) :
                       last' = Update("photo", c, file_id, caption, env,
                                      "raised", Len(listed))
                /\ Track("raised", c)
                /\ UNCHANGED <<style_references, now>>
           ELSE IF is_setting_style \/ asking
           THEN /\ style_references' = add_style_file(c, file_id)
                /\ now' = IF supabase THEN now + 1 ELSE now
                /\ \E listed \in get_style_files(style_references', c) :
                       replies' =
                           <<IF asking /\ ~is_setting_style
                             THEN Reply("saved_by_caption", Len(listed), <<>>)
                             ELSE Reply("saved", Len(listed), <<>>)>>
                /\ calls' = <<>>
                /\ \E listed \in get_style_files(style_references, c) :
                       last' = Update("photo", c, file_id, caption, env,
                                      "save", Len(listed))
                /\ Track("save", c)
           ELSE /\ \E ref_file_ids \in get_style_files(style_references, c) :
                       /\ replies' =
                              index_subject(file_id, ref_file_ids, env).replies
                       /\ calls' =
                              index_subject(file_id, ref_file_ids, env).calls
                       /\ last' = Update("photo", c, file_id, caption, env,
                                         "subject", Len(ref_file_ids))
                /\ Track("subject", c)
                /\ UNCHANGED <<style_references, now>>
    /\ UNCHANGED <<variant, supabase, mainState, user_states>>

(***************************************************************************)
(* The environment: the wall clock is set back (time.time() and the        *)
(* database's clock are not monotonic).                                    *)
(***************************************************************************)
ClockSetBack(t) ==
    /\ t < now
    /\ now' = t
    /\ last' = Update("clock", 0, 0, NoCaption, EnvOk, "none", 0)
    /\ replies' = <<>>
    /\ calls' = <<>>
    /\ responses' = <<>>
    /\ UNCHANGED <<variant, supabase, mainState, indexState, modeCmd, touched,
                   saves, pending>>

(***************************************************************************)
(* index.py under a host that runs invocations of the webhook side by      *)
(* side: handle_image up to its decision (lines 100-111), and, some time   *)
(* later, its save branch (lines 112-118).  The store orders the rows by   *)
(* the time of their insert; nothing orders the inserts by arrival.        *)
(***************************************************************************)
\* an invocation took the save branch and has not inserted its row yet
index_handle_image_begin(c, file_id, caption) ==
    /\ variant = "db"
    /\ LET asking == is_caption_asking_to_save(caption_text(caption))
           is_setting_style == get_user_state(c)
       IN  /\ is_setting_style \/ asking
           /\ pending' = Append(pending,
                                [chat |-> c, file_id |-> file_id,
                                 caption |-> caption,
                                 is_setting_style |-> is_setting_style])
    /\ \E listed \in get_style_files(style_references, c) :
           last' = Update("photo", c, file_id, caption, EnvOk, "arrived",
                          Len(listed))
    /\ replies' = <<>>
    /\ calls' = <<>>
    /\ responses' = <<>>
    /\ touched' = touched \cup {c}
    /\ UNCHANGED <<variant, supabase, now, mainState, indexState, modeCmd,
                   saves>>

\* the k-th invocation in flight inserts its row, counts and replies
index_handle_image_end(k) ==
    /\ variant = "db"
    /\ k \in 1..Len(pending)
    /\ LET call == pending[k]
           asking == is_caption_asking_to_save(caption_text(call.caption))
       IN  /\ style_references' = add_style_file(call.chat, call.file_id)
           /\ now' = IF supabase THEN now + 1 ELSE now
           /\ \E listed \in get_style_files(style_references', call.chat) :
                  replies' =
                      <<IF asking /\ ~call.is_setting_style
                        THEN Reply("saved_by_caption", Len(listed), <<>>)
                        ELSE Reply("saved", Len(listed), <<>>)>>
           /\ \E listed \in get_style_files(style_references, call.chat) :
                  last' = Update("photo", call.chat, call.file_id,
                                 call.caption, EnvOk, "save", Len(listed))
           /\ saves' = [saves EXCEPT ![call.chat] = @ + 1]
    /\ pending' = [i \in 1..(Len(pending) - 1) |->
                       IF i < k THEN pending[i] ELSE pending[i + 1]]
    /\ calls' = <<>>
    /\ responses' = do_POST(TRUE, Returns)
    /\ UNCHANGED <<variant, supabase, mainState, user_states, modeCmd,
                   touched>>

(***************************************************************************)
(* The webhook is sent a request it cannot read as an update: the header   *)
(* Content-Length is missing, the body is not JSON, or the JSON is not an  *)
(* Update.  No handler runs.                                               *)
(***************************************************************************)
Malformed == {"no_content_length", "invalid_json", "not_an_update"}

do_POST_rejected(body) ==
    /\ variant = "db"
    /\ responses' = do_POST(FALSE, Returns)
    /\ last' = Update(body, 0, 0, NoCaption, EnvOk, "none", 0)
    /\ replies' = <<>>
    /\ calls' = <<>>
    /\ UNCHANGED <<variant, supabase, now, mainState, indexState, modeCmd,
                   touched, saves, pending>>

(***************************************************************************)
(* The process is stopped and started again: the module is executed anew.  *)
(* main.py makes a new defaultdict and keeps the directory (makedirs with  *)
(* exist_ok); index.py makes a new client of the same tables.              *)
(***************************************************************************)
\* a slip: the directory is made anew, empty
RestartEmptying ==
    /\ chat_is_setting_style' = [c \in Chats |-> FALSE]
    /\ styles_dir' = <<>>
    /\ last' = Update("restart", 0, 0, NoCaption, EnvOk, "none", 0)
    /\ replies' = <<>>
    /\ calls' = <<>>
    /\ responses' = <<>>
    /\ UNCHANGED <<variant, supabase, now, indexState, modeCmd, touched,
                   saves, pending>>

Restart ==
    /\ chat_is_setting_style' = [c \in Chats |-> FALSE]
    /\ last' = Update("restart", 0, 0, NoCaption, EnvOk, "none", 0)
    /\ replies' = <<>>
    /\ calls' = <<>>
    /\ responses' = <<>>
    /\ UNCHANGED <<variant, supabase, now, styles_dir, indexState, modeCmd,
                   touched, saves, pending>>

(***************************************************************************)
(* Specifications.                                                         *)
(***************************************************************************)
\* a fresh deployment of either program
Init ==
    /\ variant \in {"fs", "db"}
    /\ supabase \in {b \in BOOLEAN : variant = "fs" => ~b}
    /\ now = TimeBase
    /\ chat_is_setting_style = [c \in Chats |-> FALSE]
    /\ styles_dir = <<>>
    /\ user_states = <<>>
    /\ style_references = EmptyBag
    /\ last = Update("init", 0, 0, NoCaption, EnvOk, "none", 0)
    /\ replies = <<>>
    /\ calls = <<>>
    /\ modeCmd = [c \in Chats |-> "none"]
    /\ touched = {}
    /\ responses = <<>>
    /\ saves = [c \in Chats |-> 0]
    /\ pending = <<>>

\* the references held for all chats together
Held ==
    IF variant = "fs" THEN Cardinality(DOMAIN styles_dir)
    ELSE Cardinality(Rows(style_references))

\* the bounds on a handler's result
Within(maxRefs, maxTime) ==
    /\ now <= TimeBase + maxTime
    /\ Held <= maxRefs
    /\ \A c \in Chats : saves[c] <= maxRefs

MainPhoto(c, in, maxRefs, maxTime) ==
    /\ main_handle_image(c, in[1], in[2], in[3])
    /\ Within(maxRefs, maxTime)'

IndexPhoto(c, in, maxRefs, maxTime) ==
    /\ index_handle_image(c, in[1], in[2], in[3])
    /\ Within(maxRefs, maxTime)'

\* the updates of the chats C: the commands, and the photos of inputs
Handlers(C, inputs, maxRefs, maxTime) ==
    \/ \E c \in C : main_start(c)
    \/ \E c \in C : main_set_style(c)
    \/ \E c \in C : main_done_style(c)
    \/ \E c \in C : main_clear_style(c, {})
    \/ \E c \in C : main_status(c)
    \/ \E c \in C, in \in inputs : MainPhoto(c, in, maxRefs, maxTime)
    \/ \E c \in C : index_start(c)
    \/ \E c \in C : index_set_style(c)
    \/ \E c \in C : index_done_style(c)
    \/ \E c \in C : index_clear_style(c)
    \/ \E c \in C : index_status(c)
    \/ \E c \in C, in \in inputs : IndexPhoto(c, in, maxRefs, maxTime)

\* /clear_style while os.remove raises for some of the chat's files
MainClearFailing(c) ==
    \E failing \in SUBSET DOMAIN styles_dir \ {{}} : main_clear_style(c, failing)

\* the faults of the chats C's surroundings
Faults(C, maxTime) ==
    \/ \E c \in C : MainClearFailing(c)
    \/ \E t \in TimeBase..(TimeBase + maxTime) : ClockSetBack(t)

(***************************************************************************)
(* Spec: one chat of either program from a fresh deployment, under every   *)
(* order of its updates, with a clock that may be set back and removals    *)
(* that may fail.                                                          *)
(***************************************************************************)
\* every photo, without and with an asking caption, and one photo whose
\* transform fails
PhotoInputs ==
    {<<p, caption, EnvOk>> : p \in Photos, caption \in {NoCaption, CaptionAdd}}
    \cup {<<1, NoCaption, Env(Returns, Raises(Msg429), <<>>, Returns)>>}

Next ==
    \/ Handlers({CapChat}, PhotoInputs, MaxRefs, MaxTime)
    \/ Faults({CapChat}, MaxTime)

Spec == Init /\ [][Next]_vars

(***************************************************************************)
(* SpecTwo: the same for two chats, within smaller bounds.                 *)
(***************************************************************************)
NextTwo ==
    \/ Handlers(Chats, PhotoInputs, TwoRefs, TwoRefs)
    \/ Faults(Chats, TwoRefs)

SpecTwo == Init /\ [][NextTwo]_vars

(***************************************************************************)
(* SpecPair: the two chats with a clock that is not set back and removals  *)
(* that succeed.                                                           *)
(***************************************************************************)
NextPair ==
    \/ \E c \in Chats : main_start(c)
    \/ \E c \in Chats : main_set_style(c)
    \/ \E c \in Chats : main_done_style(c)
    \/ \E c \in Chats : main_clear_style(c, {})
    \/ \E c \in Chats : main_status(c)
    \/ \E c \in Chats, in \in PhotoInputs : MainPhoto(c, in, TwoRefs, TwoRefs)
    \/ \E c \in Chats : index_start(c)
    \/ \E c \in Chats : index_set_style(c)
    \/ \E c \in Chats : index_done_style(c)
    \/ \E c \in Chats : index_clear_style(c)
    \/ \E c \in Chats : index_status(c)
    \/ \E c \in Chats, in \in PhotoInputs : IndexPhoto(c, in, TwoRefs, TwoRefs)

SpecPair == Init /\ [][NextPair]_vars

(***************************************************************************)
(* SpecCap: one chat whose references grow past the cap.  Every photo is a *)
(* new Telegram file, the clock is never set back and every removal        *)
(* succeeds; the captions and the collaborators' answers are all of them.  *)
(***************************************************************************)
CapRefs == MAX_REFERENCES + MaxOver

CapTime == CapRefs + 1

\* the next photo of the chat is a new file; every caption with it, and
\* every answer of the collaborators
CapInputs ==
    {<<Held + 1, caption, EnvOk>> : caption \in Captions}
    \cup {<<Held + 1, NoCaption, env>> : env \in Envs}

NextCap ==
    \/ main_start(CapChat)
    \/ main_set_style(CapChat)
    \/ main_done_style(CapChat)
    \/ main_clear_style(CapChat, {})
    \/ main_status(CapChat)
    \/ \E in \in CapInputs : MainPhoto(CapChat, in, CapRefs, CapTime)
    \/ index_start(CapChat)
    \/ index_set_style(CapChat)
    \/ index_done_style(CapChat)
    \/ index_clear_style(CapChat)
    \/ index_status(CapChat)
    \/ \E in \in CapInputs : IndexPhoto(CapChat, in, CapRefs, CapTime)

SpecCap == Init /\ [][NextCap]_vars

(***************************************************************************)
(* SpecFail: one chat under every answer of the collaborators, the rarer   *)
(* ones included, with requests the webhook cannot read and with restarts  *)
(* of the process.                                                         *)
(***************************************************************************)
FailInputs ==
    {<<Held + 1, CaptionAdd, EnvOk>>}
    \cup {<<Held + 1, NoCaption, env>> : env \in FailEnvs}

NextFail ==
    \/ main_start(CapChat)
    \/ main_set_style(CapChat)
    \/ main_done_style(CapChat)
    \/ main_clear_style(CapChat, {})
    \/ main_status(CapChat)
    \/ \E in \in FailInputs : MainPhoto(CapChat, in, FailRefs, FailRefs)
    \/ index_start(CapChat)
    \/ index_set_style(CapChat)
    \/ index_done_style(CapChat)
    \/ index_clear_style(CapChat)
    \/ index_status(CapChat)
    \/ \E in \in FailInputs : IndexPhoto(CapChat, in, FailRefs, FailRefs)
    \/ \E body \in Malformed : do_POST_rejected(body)
    \/ Restart

SpecFail == Init /\ [][NextFail]_vars

(***************************************************************************)
(* SpecRace: one chat saving references, the k-th photo to arrive being    *)
(* the Telegram file k.  main.py handles its updates one after the other   *)
(* (the application is built without concurrent updates); the invocations  *)
(* of index.py overlap.                                                    *)
(***************************************************************************)
Arrived == Held + Len(pending)

NextRace ==
    \/ main_set_style(CapChat)
    \/ main_done_style(CapChat)
    \/ main_status(CapChat)
    \/ \E caption \in {NoCaption, CaptionAdd} :
           /\ chat_is_setting_style[CapChat] \/ caption = CaptionAdd
           /\ MainPhoto(CapChat, <<Arrived + 1, caption, EnvOk>>,
                        MaxRefs, MaxTime)
    \/ index_set_style(CapChat)
    \/ index_done_style(CapChat)
    \/ index_status(CapChat)
    \/ \E caption \in {NoCaption, CaptionAdd} :
           /\ Len(pending) < MaxFlight
           /\ Arrived < MaxRefs
           /\ index_handle_image_begin(CapChat, Arrived + 1, caption)
    \/ \E k \in 1..Len(pending) :
           /\ index_handle_image_end(k)
           /\ Within(MaxRefs, MaxTime)'

SpecRace == Init /\ [][NextRace]_vars

(***************************************************************************)
(* What a chat reads back: the contract of the two stores.                 *)
(***************************************************************************)
\* SessionMode.get(c)
SessionMode(c) ==
    IF variant = "fs" THEN chat_is_setting_style[c] ELSE get_user_state(c)

\* ReferenceStore.list(c): the lists of handles a read can return
Listings(c) ==
    IF variant = "fs" THEN {get_style_images(styles_dir, c)}
    ELSE get_style_files(style_references, c)

\* the photo a listed handle was saved from
PhotoOf(handle) == IF variant = "fs" THEN styles_dir[handle][2] ELSE handle

\* the image a transform loads for a listed handle
ImageOf(handle) ==
    IF variant = "fs" THEN styles_dir[handle] ELSE PhotoImage(handle)

ListedPhotos(c) ==
    {[i \in 1..Len(l) |-> PhotoOf(l[i])] : l \in Listings(c)}

ListedImages(c) ==
    {[i \in 1..Len(l) |-> ImageOf(l[i])] : l \in Listings(c)}

\* the last handler was handle_image and took its save branch for chat c
SavedFor(c) == last.op = "photo" /\ last.chat = c /\ last.branch = "save"

\* the last handler was handle_image and took its subject branch
Transformed == last.op = "photo" /\ last.branch = "subject"

(***************************************************************************)
(* The claims.                                                             *)
(***************************************************************************)
C1_Keywords ==
    {<<"a", "d", "d">>, <<"r", "e", "f">>, <<"s", "t", "y", "l", "e">>,
     <<"s", "a", "l", "v", "a">>, <<"m", "o", "o", "d">>}

C1_Normalized(caption) ==
    Lower(Strip(IF caption.present THEN caption.text ELSE <<>>))

\* C1: a photo goes to the save branch (and is answered with a save
\* confirmation, no generation call) exactly when the chat's session mode
\* is on or its caption, trimmed and lower-cased, contains one of add, ref,
\* style, salva, mood; every other photo goes to the subject branch.
C1_Decision ==
    last.op = "photo" =>
        LET asks == \E w \in C1_Keywords :
                        Contains(C1_Normalized(last.caption), w)
        IN  IF SessionMode(last.chat) \/ asks
            THEN /\ last.branch = "save"
                 /\ Len(replies) = 1
                 /\ replies[1].kind \in {"saved", "saved_by_caption"}
                 /\ calls = <<>>
            ELSE /\ last.branch = "subject"
                 /\ replies[1].kind \in {"no_references", "received"}

\* a photo captioned "preference", session mode off, was saved
C1_Witness ==
    /\ last.op = "photo"
    /\ last.caption = CaptionPreference
    /\ ~SessionMode(last.chat)
    /\ last.branch = "save"
    /\ replies[1].kind = "saved_by_caption"

\* C2: the session mode read for a chat is true exactly when the chat's
\* latest set_style/done_style command was set_style.
C2_ModeIsLatestCommand ==
    \A c \in Chats : SessionMode(c) <=> modeCmd[c] = "set_style"

\* C3: saving a photo as a reference puts it at the end of the chat's list
\* and keeps the order of the others, so the list is the saves in order.
C3_SavesListedInOrder ==
    [][\A c \in Chats :
          SavedFor(c)' =>
              ListedPhotos(c)' =
                  {Append(l, last'.photo) : l \in ListedPhotos(c)}]_vars

\* C4: every save of a reference makes the chat's list longer by exactly
\* one entry.
C4_SaveAddsOne ==
    [][\A c \in Chats :
          SavedFor(c)' =>
              {Len(l) : l \in Listings(c)'} =
                  {Len(l) + 1 : l \in Listings(c)}]_vars

\* C5: once clear_style has answered that every reference was deleted, the
\* chat's list is empty.
C5_ClearedIsEmpty ==
    (last.op = "clear_style" /\ replies = <<Reply("cleared", 0, <<>>)>>)
        => Listings(last.chat) = {<<>>}

\* C6: a chat no update was ever processed for reads session mode false
\* and an empty list of references.
C6_Untouched ==
    \A c \in Chats \ touched : ~SessionMode(c) /\ Listings(c) = {<<>>}

\* one chat untouched while the other has session mode on and a reference
C6_Witness ==
    \E c \in Chats \ touched : \E d \in touched :
        SessionMode(d) /\ Listings(d) # {<<>>}

\* C7: a photo taken as the subject while the chat's list is empty is
\* answered with the no-references guidance alone, and generate_content is
\* not called.
C7_NoReferences ==
    (Transformed /\ Listings(last.chat) = {<<>>})
        => /\ replies = <<Reply("no_references", 0, <<>>)>>
           /\ calls = <<>>

\* a subject with no reference, under collaborators whose call would fail
C7_Witness ==
    /\ Transformed
    /\ Listings(last.chat) = {<<>>}
    /\ last.env.gen.raised
    /\ replies[1].kind = "no_references"

C9_TruncationSignalled ==
    (Transformed /\ calls # <<>>) =>
        ((\E l \in Listings(last.chat) : Len(l) > 10)
            <=> (\E i \in 1..Len(replies) : replies[i].kind = "truncated"))

\* C10: when generate_content raises, the last reply is the quota message
\* if str(e) contains "429" or "RESOURCE_EXHAUSTED" and otherwise the error
\* message carrying str(e); it is the only reply of either kind.
C10_Classification ==
    (Transformed /\ calls # <<>> /\ last.env.gen.raised) =>
        LET m == last.env.gen.msg
            quota == \/ Contains(m, <<"4", "2", "9">>)
                     \/ Contains(m, <<"R", "E", "S", "O", "U", "R", "C", "E",
                                      "_", "E", "X", "H", "A", "U", "S", "T",
                                      "E", "D">>)
        IN  /\ replies[Len(replies)] =
                   IF quota THEN Reply("quota", 0, <<>>)
                            ELSE Reply("error", 0, m)
            /\ Cardinality({i \in 1..Len(replies) :
                               replies[i].kind \in {"quota", "error"}}) = 1

\* a call that failed with RESOURCE_EXHAUSTED and no 429: the quota message
C10_Witness ==
    /\ Transformed
    /\ calls # <<>>
    /\ last.env.gen = Raises(MsgExhausted)
    /\ replies[Len(replies)].kind = "quota"

\* C11: when generate_content returns and the result can be delivered, the
\* last reply is the photo made of the first response part that is an image;
\* when no part is an image it is the empty-generation message, which is
\* neither the quota message nor the error message.
C11_Extraction ==
    (Transformed /\ calls # <<>> /\ ~last.env.gen.raised
                 /\ ~last.env.send.raised) =>
        LET parts == IF last.env.iterable THEN last.env.parts ELSE <<>>
            images == {i \in 1..Len(parts) : parts[i] > 0}
            final == replies[Len(replies)]
        IN  IF images = {}
            THEN final = Reply("generation_empty", 0, <<>>)
            ELSE \E i \in images :
                    /\ \A j \in images : i <= j
                    /\ final = Reply("photo", 0, <<"png", parts[i]>>)

C12_Terminal ==
    {"no_references", "photo", "generation_empty", "quota", "error"}

\* C12: a photo that is a transform request (session mode off, no keyword in
\* its caption) is handled to the end of the subject branch, no exception
\* leaving the handler, and is answered with exactly one reply of a terminal
\* outcome (no references, result, empty, quota, failed), sent last.
C12_OneTerminalOutcome ==
    (/\ last.op = "photo"
     /\ ~SessionMode(last.chat)
     /\ ~\E w \in C1_Keywords : Contains(C1_Normalized(last.caption), w)) =>
        /\ last.branch = "subject"
        /\ replies # <<>>
        /\ replies[Len(replies)].kind \in C12_Terminal
        /\ Cardinality({i \in 1..Len(replies) :
                           replies[i].kind \in C12_Terminal}) = 1

\* C13: one photo makes at most one call of generate_content; when the
\* call was made and the outcome is the quota, the error or the
\* empty-generation message, that message is sent once and the call is not
\* made again.
C13_NoRetry ==
    last.op = "photo" =>
        /\ Len(calls) <= 1
        /\ LET failures == {i \in 1..Len(replies) :
                               replies[i].kind \in
                                   {"quota", "error", "generation_empty"}}
           IN  /\ Cardinality(failures) <= 1
               /\ failures # {} => failures = {Len(replies)}

\* a call that failed with a server error: one call, one error message
C13_Witness ==
    /\ Transformed
    /\ last.env.gen = Raises(Msg500)
    /\ Len(calls) = 1
    /\ replies[Len(replies)] = Reply("error", 0, Msg500)

\* C14: the webhook answers every request with one status code: 500 when
\* the request cannot be read as an update or when handling the update
\* raised, 200 otherwise.
C14_OneResponse ==
    (variant = "db" /\ last.op \notin {"init", "restart", "clock"}) =>
        responses = IF last.op \in Malformed \/ last.branch = "raised"
                    THEN <<500>> ELSE <<200>>

\* C15: the count told by status, by done_style and by the confirmation of
\* a save is the number of saves the chat made since its last clear_style,
\* also above 10.
C15_TrueTotal ==
    (last.op \in {"status", "done_style"} \/ SavedFor(last.chat)) =>
        replies[1].n = saves[last.chat]

C17_Frame ==
    [][(last'.branch # "save" /\ last'.op # "clear_style") =>
          \A c \in Chats :
              /\ Listings(c)' = Listings(c)
              /\ ListedImages(c)' = ListedImages(c)]_vars

\* a transform that ended with a result; the subject is not in the list
C17_Witness ==
    /\ Transformed
    /\ replies[Len(replies)].kind = "photo"
    /\ \A l \in ListedPhotos(last.chat) :
           /\ Len(l) >= 1
           /\ \A i \in 1..Len(l) : l[i] # last.photo

\* C18: the references of a chat are listed in the order their photos
\* arrived, also when a later photo began to be handled before the save of
\* an earlier one was complete; and every photo handled to the end is
\* listed.
C18_ArrivalOrder ==
    \A l \in ListedPhotos(CapChat) :
        /\ \A i \in 1..Len(l), j \in 1..Len(l) : i < j => l[i] < l[j]
        /\ (supabase \/ variant = "fs") => Len(l) = saves[CapChat]

\* C19: a restart of the process keeps every chat's list of references;
\* it leaves the session mode false in main.py, whatever the last command
\* was, and as it was in index.py.
C19_Retention ==
    [][last'.op = "restart" =>
          \A c \in Chats :
              /\ Listings(c)' = Listings(c)
              /\ ListedImages(c)' = ListedImages(c)
              /\ SessionMode(c)' =
                     IF variant = "fs" THEN FALSE ELSE SessionMode(c)]_vars

\* main.py restarted after set_style and a save: the reference is kept,
\* the mode is off
C19_Witness ==
    /\ last.op = "restart"
    /\ variant = "fs"
    /\ modeCmd[CapChat] = "set_style"
    /\ ~SessionMode(CapChat)
    /\ Listings(CapChat) # {<<>>}

\* the kinds of a handler's replies, in order
C20_Kinds(sent) == [i \in 1..Len(sent) |-> sent[i].kind]

\* the photos a payload was built from: its entries without their encoding
C20_Photos(payloads) ==
    [i \in 1..Len(payloads) |->
        [k \in 1..Len(payloads[i]) |-> payloads[i][k][2]]]

\* C20: whatever references main.py holds for a chat, index.py holding the
\* same photos in the same order answers the next subject photo with the
\* same signals and outcome, and passes the same photos in the same order
\* to generate_content, under every answer of the collaborators.
C20_SameTransform ==
    variant = "fs" =>
        LET files == get_style_images(styles_dir, CapChat)
            ids == [i \in 1..Len(files) |-> PhotoOf(files[i])]
            subject == Held + 1
        IN  \A env \in Envs :
                LET fs == main_subject(PhotoImage(subject), files, env)
                    db == index_subject(subject, ids, env)
                IN  /\ C20_Kinds(fs.replies) = C20_Kinds(db.replies)
                    /\ C20_Photos(fs.calls) = C20_Photos(db.calls)

\* C21: the quota message is sent only for a transform that called
\* generate_content and whose call raised with "429" or
\* "RESOURCE_EXHAUSTED" in str(e); a failure of fetching or opening an
\* image before the call, or of sending the result after it, is not
\* answered with the quota message.
C21_QuotaOnlyFromCall ==
    (last.op = "photo"
     /\ \E i \in 1..Len(replies) : replies[i].kind = "quota") =>
        /\ calls # <<>>
        /\ last.env.gen.raised
        /\ \/ Contains(last.env.gen.msg, <<"4", "2", "9">>)
           \/ Contains(last.env.gen.msg, RESOURCE_EXHAUSTED)

====
